---- MODULE Spec2Model ----
(***************************************************************************)
(* Model of the NFSe (Nota Carioca) XML viewer, src/src/main.rs:           *)
(* the document model (serde structs), parse_xml_from_file, the two        *)
(* selection buttons of TemplateApp::update and TemplateApp::process_files.*)
(*                                                                         *)
(* Text is a sequence of tokens: a character, an opening tag or a closing  *)
(* tag.  Option<T> is a sequence of length at most one: <<>> is None and   *)
(* <<x>> is Some(x).  A string is a sequence of one-character strings.     *)
(***************************************************************************)
EXTENDS Integers, Sequences, FiniteSets, TLC

VARIABLES
    fs,               \* the file system: path -> node
    selected_files,   \* TemplateApp.selected_files
    parsed_invoices,  \* TemplateApp.parsed_invoices
    error_message,    \* TemplateApp.error_message (Option)
    dialog,           \* the last button clicked and what its dialog returned
    batch_started,    \* whether the last click called process_files
    opened,           \* the paths the last batch run passed to parse_xml_from_file, in call order
    cleared,          \* whether the last batch run cleared both records and an error
    stale,            \* whether a file was written after the last click
    written,          \* the document written to PathA: its byte-order marks and envelopes (Option)
    parse_result,     \* the Result of the last direct parse_xml_from_file call (Option)
    decoder_input     \* the text that call handed to quick_xml::de::from_str (Option)

vars == <<fs, selected_files, parsed_invoices, error_message, dialog,
          batch_started, opened, cleared, stale, written, parse_result,
          decoder_input>>

\* ------------------------------------------------------------------ bounds

\* The largest number of leading byte-order marks of a generated document.
MaxBom == 2

\* The largest number of CompNfse envelopes of a generated document.
MaxEnv == 2

\* ------------------------------------------------------------- Option, Result

None == <<>>

Some(x) == <<x>>

Ok(v) == [ok |-> TRUE, val |-> v, err |-> ""]

Err(e) == [ok |-> FALSE, val |-> <<>>, err |-> e]

\* ------------------------------------------------------------------- text

Chr(c) == [k |-> "chr", n |-> c]

Open(t) == [k |-> "open", n |-> t]

Close(t) == [k |-> "close", n |-> t]

\* The character U+FEFF.
BOM == Chr("FEFF")

\* The characters of a string, as text.
Str(s) == [i \in 1..Len(s) |-> Chr(s[i])]

\* An element <tag>inner</tag>.
Elem(tag, inner) == <<Open(tag)>> \o inner \o <<Close(tag)>>

\* All sequences over S of length at most n.
SeqUpTo(S, n) == UNION {[1..m -> S] : m \in 0..n}

RECURSIVE Flatten(_)
\* The concatenation of a sequence of sequences.
Flatten(ss) == IF ss = <<>> THEN <<>> ELSE Head(ss) \o Flatten(Tail(ss))

\* The elements of a sequence.
Range(s) == {s[i] : i \in 1..Len(s)}

\* ------------------------------------------------ quick_xml: text to elements

(* An element is [tag, text, kids]: its name, the characters directly inside
   it and its child elements, in document order.  ParseContent reads the
   content of an element from position i up to (not including) the closing
   tag that ends it, or up to the end of the text. *)
RECURSIVE ParseContent(_, _)
ParseContent(toks, i) ==
    IF i > Len(toks)
    THEN [ok |-> TRUE, text |-> <<>>, kids |-> <<>>, next |-> i]
    ELSE LET t == toks[i] IN
         CASE t.k = "close" ->
                [ok |-> TRUE, text |-> <<>>, kids |-> <<>>, next |-> i]
           [] t.k = "chr" ->
                LET r == ParseContent(toks, i + 1) IN
                IF r.ok THEN [r EXCEPT !.text = <<t.n>> \o @] ELSE r
           [] OTHER ->
                LET inner == ParseContent(toks, i + 1) IN
                IF ~inner.ok \/ inner.next > Len(toks)
                THEN [ok |-> FALSE, text |-> <<>>, kids |-> <<>>, next |-> i]
                ELSE IF toks[inner.next] # Close(t.n)
                THEN [ok |-> FALSE, text |-> <<>>, kids |-> <<>>, next |-> i]
                ELSE LET r == ParseContent(toks, inner.next + 1)
                         e == [tag |-> t.n, text |-> inner.text, kids |-> inner.kids]
                     IN  IF r.ok THEN [r EXCEPT !.kids = <<e>> \o @] ELSE r

(* The root element of a document: the text must be exactly one element,
   every tag closed by its own closing tag. *)
ParseDocument(toks) ==
    LET r == ParseContent(toks, 1) IN
    IF r.ok /\ r.next = Len(toks) + 1 /\ r.text = <<>> /\ Len(r.kids) = 1
    THEN Ok(r.kids[1])
    ELSE Err("syntax error")

\* ------------------------------------------------------ serde: field access

\* The steps of a decoder in sequence: F applied to the value of r, or the error of r.
Bind(r, F(_)) == IF r.ok THEN F(r.val) ELSE r

\* The child elements of e named tag, in document order.
Children(e, tag) == SelectSeq(e.kids, LAMBDA c : c.tag = tag)

MissingField(tag) == "missing field " \o tag

DuplicateField(tag) == "duplicate field " \o tag

\* The one element of cs, the child elements named tag.
ExactlyOne(cs, tag) ==
    IF cs = <<>> THEN Err(MissingField(tag))
    ELSE IF Len(cs) > 1 THEN Err(DuplicateField(tag))
    ELSE Ok(cs[1])

\* A mandatory field of a struct: exactly one child element of that name.
Required(e, tag) == ExactlyOne(Children(e, tag), tag)

\* A String: the characters of the element.
DeString(e) ==
    IF e.kids = <<>> THEN Ok(e.text) ELSE Err("invalid type: map, expected a string")

\* field: String
StringField(e, tag) == Bind(Required(e, tag), DeString)

\* The element of cs, the child elements named tag, if there is one.
AtMostOne(cs, tag) ==
    IF cs = <<>> THEN Ok(None)
    ELSE IF Len(cs) > 1 THEN Err(DuplicateField(tag))
    ELSE Bind(DeString(cs[1]), LAMBDA v : Ok(Some(v)))

\* field: Option<String>; an absent element is None.
OptionStringField(e, tag) == AtMostOne(Children(e, tag), tag)

Digits == <<"0", "1", "2", "3", "4", "5", "6", "7", "8", "9">>

IsDigit(c) == c \in Range(Digits)

DigitVal(c) == (CHOOSE i \in 1..10 : Digits[i] = c) - 1

RECURSIVE DecimalValue(_)
\* The number a string of digits writes.
DecimalValue(s) ==
    IF s = <<>> THEN 0
    ELSE 10 * DecimalValue(SubSeq(s, 1, Len(s) - 1)) + DigitVal(s[Len(s)])

RECURSIVE StripZeros(_)
\* A string of digits without its leading zeros ("0" for zero).
StripZeros(s) ==
    IF Len(s) > 1 /\ Head(s) = "0" THEN StripZeros(Tail(s)) ELSE s

\* u32::MAX, written in decimal.
U32MaxDigits == <<"4", "2", "9", "4", "9", "6", "7", "2", "9", "5">>

RECURSIVE DigitsGreater(_, _)
\* Whether a writes a larger number than b, for digit strings of one length.
DigitsGreater(a, b) ==
    IF a = <<>> THEN FALSE
    ELSE IF Head(a) # Head(b) THEN DigitVal(Head(a)) > DigitVal(Head(b))
    ELSE DigitsGreater(Tail(a), Tail(b))

AllDigits(s) == \A i \in 1..Len(s) : IsDigit(s[i])

\* Whether the digit string n, without leading zeros, writes more than u32::MAX.
Overflows(n) ==
    \/ Len(n) > Len(U32MaxDigits)
    \/ Len(n) = Len(U32MaxDigits) /\ DigitsGreater(n, U32MaxDigits)

(* field: u32, from the characters s.  The value is kept as its decimal
   digits without leading zeros, which writes every u32 exactly. *)
ParseU32(s) ==
    IF s = <<>> THEN Err("cannot parse integer from empty string")
    ELSE IF ~AllDigits(s) THEN Err("invalid digit found in string")
    ELSE IF Overflows(StripZeros(s)) THEN Err("number too large to fit in target type")
    ELSE Ok(StripZeros(s))

\* The amount with integer digits ip and fraction digits fp, in hundredths.
Hundredths(ip, fp) ==
    100 * DecimalValue(ip)
    + (IF Len(fp) = 1 THEN 10 * DecimalValue(fp) ELSE DecimalValue(fp))

\* The places of the character c in s.
Places(s, c) == {i \in 1..Len(s) : s[i] = c}

(* field: f32, from the characters s with the decimal points at dots.  The
   value is kept in hundredths; the amounts of the model have at most two
   decimals, so that rounding to f32 maps distinct amounts to distinct
   values and plays no part. *)
FloatAt(s, dots) ==
    IF dots = {}
    THEN IF s # <<>> /\ AllDigits(s) THEN Ok(Hundredths(s, <<>>))
         ELSE Err("invalid float literal")
    ELSE LET d == CHOOSE i \in dots : TRUE IN
         IF /\ Cardinality(dots) = 1
            /\ d > 1 /\ AllDigits(SubSeq(s, 1, d - 1))
            /\ Len(s) - d \in {1, 2} /\ AllDigits(SubSeq(s, d + 1, Len(s)))
         THEN Ok(Hundredths(SubSeq(s, 1, d - 1), SubSeq(s, d + 1, Len(s))))
         ELSE Err("invalid float literal")

ParseF32(s) == FloatAt(s, Places(s, "."))

U32Field(e, tag) == Bind(StringField(e, tag), ParseU32)

F32Field(e, tag) == Bind(StringField(e, tag), ParseF32)

\* field: a nested struct, decoded by De.
StructField(e, tag, De(_)) == Bind(Required(e, tag), De)

\* ------------------------------------------------------- the document model

\* A CpfCnpj whose Cnpj is a String, as the provider's is.
CpfCnpj_Strict(e) ==
    Bind(StringField(e, "Cnpj"), LAMBDA cnpj :
    Bind(OptionStringField(e, "Cpf"), LAMBDA cpf :
    Ok([cnpj |-> Some(cnpj), cpf |-> cpf])))

\* struct CpfCnpj { Cnpj: Option<String>, Cpf: Option<String> }
CpfCnpj(e) ==
    Bind(OptionStringField(e, "Cnpj"), LAMBDA cnpj :
    Bind(OptionStringField(e, "Cpf"), LAMBDA cpf :
    Ok([cnpj |-> cnpj, cpf |-> cpf])))

\* struct IdentificacaoTomador { CpfCnpj: CpfCnpj }
IdentificacaoTomador(e) ==
    Bind(StructField(e, "CpfCnpj", CpfCnpj), LAMBDA cpf_cnpj :
    Ok([cpf_cnpj |-> cpf_cnpj]))

\* struct Tomador { RazaoSocial: String, IdentificacaoTomador }
Tomador(e) ==
    Bind(StringField(e, "RazaoSocial"), LAMBDA razao_social :
    Bind(StructField(e, "IdentificacaoTomador", IdentificacaoTomador),
         LAMBDA identificacao_tomador :
    Ok([razao_social |-> razao_social,
        identificacao_tomador |-> identificacao_tomador])))

\* struct IdentificacaoPrestador { Cnpj: String }
IdentificacaoPrestador(e) ==
    Bind(StringField(e, "Cnpj"), LAMBDA cnpj : Ok([cnpj |-> cnpj]))

\* struct Prestador { RazaoSocial: String, IdentificacaoPrestador }
Prestador(e) ==
    Bind(StringField(e, "RazaoSocial"), LAMBDA razao_social :
    Bind(StructField(e, "IdentificacaoPrestador", IdentificacaoPrestador),
         LAMBDA identificacao_prestador :
    Ok([razao_social |-> razao_social,
        identificacao_prestador |-> identificacao_prestador])))

\* struct Valores { ValorServicos: f32 }
Valores(e) ==
    Bind(F32Field(e, "ValorServicos"), LAMBDA valor_servicos :
    Ok([valor_servicos |-> valor_servicos]))

\* struct Servico { Valores, Discriminacao: String }
Servico(e) ==
    Bind(StructField(e, "Valores", Valores), LAMBDA valores :
    Bind(StringField(e, "Discriminacao"), LAMBDA discriminacao :
    Ok([valores |-> valores, discriminacao |-> discriminacao])))

\* struct InfNfse { Numero: u32, DataEmissao: String, Servico, PrestadorServico, TomadorServico }
InfNfse(e) ==
    Bind(U32Field(e, "Numero"), LAMBDA numero :
    Bind(StringField(e, "DataEmissao"), LAMBDA data_emissao :
    Bind(StructField(e, "Servico", Servico), LAMBDA servico :
    Bind(StructField(e, "PrestadorServico", Prestador), LAMBDA prestador_servico :
    Bind(StructField(e, "TomadorServico", Tomador), LAMBDA tomador_servico :
    Ok([numero |-> numero,
        data_emissao |-> data_emissao,
        servico |-> servico,
        prestador_servico |-> prestador_servico,
        tomador_servico |-> tomador_servico]))))))

\* struct Nfse { InfNfse }
Nfse(e) ==
    Bind(StructField(e, "InfNfse", InfNfse), LAMBDA inf_nfse :
    Ok([inf_nfse |-> inf_nfse]))

\* struct CompNfse { Nfse }
CompNfse(e) ==
    Bind(StructField(e, "Nfse", Nfse), LAMBDA nfse : Ok([nfse |-> nfse]))

RECURSIVE VecCompNfse(_)
\* A Vec<CompNfse> collected back to front.
VecCompNfse_Reversed(es) ==
    IF es = <<>> THEN Ok(<<>>)
    ELSE Bind(CompNfse(Head(es)), LAMBDA first :
         Bind(VecCompNfse(Tail(es)), LAMBDA rest :
         Ok(rest \o <<first>>)))

\* The value of an Ok, as a list of one element; nothing for an Err.
Decoded(r) == IF r.ok THEN <<r.val>> ELSE <<>>

\* A Vec<CompNfse> that skips the elements that do not decode.
VecCompNfse_Lenient(es) ==
    IF es = <<>> THEN Ok(<<>>)
    ELSE Bind(VecCompNfse(Tail(es)), LAMBDA rest :
         Ok(Decoded(CompNfse(Head(es))) \o rest))

\* Vec<CompNfse>: every element of the list decoded, in document order.
VecCompNfse(es) ==
    IF es = <<>> THEN Ok(<<>>)
    ELSE Bind(CompNfse(Head(es)), LAMBDA first :
         Bind(VecCompNfse(Tail(es)), LAMBDA rest :
         Ok(<<first>> \o rest)))

\* struct ListaNfse { #[serde(rename = "CompNfse", default)] comp_nfse: Vec<CompNfse> }
ListaNfse(e) ==
    Bind(VecCompNfse(Children(e, "CompNfse")), LAMBDA comp_nfse :
    Ok([comp_nfse |-> comp_nfse]))

\* struct ConsultarNfseResposta { ListaNfse }
ConsultarNfseResposta(e) ==
    Bind(StructField(e, "ListaNfse", ListaNfse), LAMBDA lista_nfse :
    Ok([lista_nfse |-> lista_nfse]))

\* quick_xml::de::from_str::<ConsultarNfseResposta>
from_str(text) == Bind(ParseDocument(text), ConsultarNfseResposta)

\* ------------------------------------------------- documents, as files hold them

\* An optional element: absent for None.
OptElem(tag, v) == IF v = None THEN <<>> ELSE Elem(tag, Str(v[1]))

(* The text of one CompNfse envelope.  d gives the digits of Numero, the
   amount (Option), the description, and the Cnpj and Cpf elements (Options)
   of the provider's and of the recipient's identification. *)
EnvelopeText(d) ==
    Elem("CompNfse", Elem("Nfse", Elem("InfNfse",
        Elem("Numero", Str(d.num))
        \o Elem("DataEmissao", Str(<<"2", "0", "2", "4">>))
        \o Elem("Servico",
              Elem("Valores", OptElem("ValorServicos", d.valor))
              \o Elem("Discriminacao", Str(d.desc)))
        \o Elem("PrestadorServico",
              Elem("RazaoSocial", Str(<<"P">>))
              \o Elem("IdentificacaoPrestador",
                    OptElem("Cnpj", d.pcnpj) \o OptElem("Cpf", d.pcpf)))
        \o Elem("TomadorServico",
              Elem("RazaoSocial", Str(<<"T">>))
              \o Elem("IdentificacaoTomador",
                    Elem("CpfCnpj", OptElem("Cnpj", d.tcnpj) \o OptElem("Cpf", d.tcpf)))))))

\* k byte-order marks.
Boms(k) == [i \in 1..k |-> BOM]

\* The text of a document: k byte-order marks, then the response with its envelopes.
DocText(k, envs) ==
    Boms(k) \o Elem("ConsultarNfseResposta",
                 Elem("ListaNfse", Flatten([i \in 1..Len(envs) |-> EnvelopeText(envs[i])])))

Envelope(num, valor, desc, pcnpj, pcpf, tcnpj, tcpf) ==
    [num |-> num, valor |-> valor, desc |-> desc,
     pcnpj |-> pcnpj, pcpf |-> pcpf, tcnpj |-> tcnpj, tcpf |-> tcpf]

CnpjA == Some(<<"1", "1">>)

CnpjB == Some(<<"2", "2">>)

CpfA == Some(<<"3">>)

Amount == Some(<<"1", "0", ".", "5">>)

(* The envelopes of the generated documents.  In the first five only the
   recipient's tax id varies; the provider has a Cnpj, with or without a
   Cpf element beside it. *)
RecipientEnvelopes ==
    { Envelope(<<"1">>, Amount, <<"a">>, CnpjA, None, CnpjB, None),
      Envelope(<<"2">>, Amount, <<"b">>, CnpjA, None, None, CpfA),
      Envelope(<<"3">>, Amount, <<"c">>, CnpjA, None, CnpjB, CpfA),
      Envelope(<<"4">>, Amount, <<"d">>, CnpjA, None, None, None),
      Envelope(<<"0", "5">>, Amount, <<"e", "FEFF">>, CnpjA, CpfA, CnpjB, None) }

\* Envelopes whose provider has no Cnpj element.
ProviderEnvelopes ==
    { Envelope(<<"6">>, Amount, <<"f">>, None, None, CnpjB, None),
      Envelope(<<"7">>, Amount, <<"g">>, None, CpfA, CnpjB, None) }

\* Envelopes with a mandatory field absent, or with a Numero that is no u32.
DefectiveEnvelopes ==
    { Envelope(<<"8">>, None, <<"h">>, CnpjA, None, CnpjB, None),
      Envelope(<<"x">>, Amount, <<"i">>, CnpjA, None, CnpjB, None) }

AllEnvelopes == RecipientEnvelopes \cup ProviderEnvelopes \cup DefectiveEnvelopes

\* A document whose root element is never closed.
Unclosed == <<Open("ConsultarNfseResposta"), Open("ListaNfse"), Close("ListaNfse")>>

\* ------------------------------------------------------------ the file system

(* A path is a sequence of names and a name a string.  The paths of the
   model, in the order in which a directory lists its entries. *)
Root == << <<"r">> >>

PathA == Root \o << <<"a", ".", "x", "m", "l">> >>

PathB == Root \o << <<"b", ".", "X", "M", "L">> >>

PathC == Root \o << <<"c", ".", "t", "x", "t">> >>

PathE == Root \o << <<"e", ".", "x", "m", "l">> >>

PathSub == Root \o << <<"s", "u", "b">> >>

PathD == PathSub \o << <<"d", ".", "x", "m", "l">> >>

PathH == PathSub \o << <<".", "x", "m", "l">> >>

Listing == <<Root, PathA, PathB, PathC, PathE, PathSub, PathD, PathH>>

Paths == Range(Listing)

Absent == [kind |-> "absent", utf8 |-> FALSE, listable |-> FALSE, data |-> <<>>]

\* A file holding text.
File(text) == [kind |-> "file", utf8 |-> TRUE, listable |-> FALSE, data |-> text]

\* A file whose bytes are not valid UTF-8.
Binary == [kind |-> "file", utf8 |-> FALSE, listable |-> FALSE, data |-> <<>>]

\* A directory; one that is not listable cannot be read by read_dir.
Dir(listable) == [kind |-> "dir", utf8 |-> FALSE, listable |-> listable, data |-> <<>>]

Parent(p) == SubSeq(p, 1, Len(p) - 1)

\* Every entry other than the root is inside a directory.
WellFormed(fsys) ==
    /\ fsys[Root].kind = "dir"
    /\ \A p \in Paths \ {Root} :
          fsys[p].kind # "absent" => fsys[Parent(p)].kind = "dir"

\* ------------------------------------------------------ parse_xml_from_file

RECURSIVE trim_start_matches(_, _)
\* str::strip_prefix(c), or the text itself: one leading c removed.
trim_start_matches_Once(s, c) ==
    IF s # <<>> /\ Head(s) = c THEN Tail(s) ELSE s

\* str::trim_start_matches(c): the text without its leading run of c.
trim_start_matches(s, c) ==
    IF s # <<>> /\ Head(s) = c THEN trim_start_matches(Tail(s), c) ELSE s

\* format!("Erro ao abrir o arquivo \"{:?}\": {}", file_path, e)
OpenError(file_path, e) ==
    [fmt |-> "Erro ao abrir o arquivo", path |-> Some(file_path), cause |-> e]

\* format!("Erro ao ler o arquivo: {}", e)
ReadError(e) == [fmt |-> "Erro ao ler o arquivo", path |-> None, cause |-> e]

\* format!("Erro ao processar o XML em \"{:?}\": {}", file_path, e)
DecodeError(file_path, e) ==
    [fmt |-> "Erro ao processar o XML em", path |-> Some(file_path), cause |-> e]

\* Whether File::open and read_to_string both succeed (a directory opens, and fails to read).
Readable(node) == node.kind = "file" /\ node.utf8

\* The text handed to quick_xml::de::from_str, when the file is read.
DecoderInput(fsys, file_path) ==
    IF Readable(fsys[file_path])
    THEN Some(trim_start_matches(fsys[file_path].data, BOM))
    ELSE None

\* match resposta { Ok(r) => Ok(r), Err(e) => Err(format!(...)) }
Resposta(file_path, resposta) ==
    IF resposta.ok THEN Ok(resposta.val)
    ELSE Err(DecodeError(file_path, resposta.err))

parse_xml_from_file(fsys, file_path) ==
    IF fsys[file_path].kind = "absent"
    THEN Err(OpenError(file_path, "No such file or directory"))
    ELSE IF fsys[file_path].kind = "dir" THEN Err(ReadError("Is a directory"))
    ELSE IF ~fsys[file_path].utf8
    THEN Err(ReadError("stream did not contain valid UTF-8"))
    ELSE Resposta(file_path, from_str(trim_start_matches(fsys[file_path].data, BOM)))

\* ------------------------------------------------- TemplateApp::process_files

\* A process_files that does not clear.
clear_Nothing(v) == v

\* Vec::clear
clear(v) == <<>>

\* The InfNfse of every CompNfse of a response, in order.
Invoices(resposta) ==
    [j \in 1..Len(resposta.lista_nfse.comp_nfse) |->
        resposta.lista_nfse.comp_nfse[j].nfse.inf_nfse]

\* format!("Erro ao processar {}: {}", path.display(), e)
BatchError(path, e) == [fmt |-> "Erro ao processar", path |-> Some(path), cause |-> e]

\* A push at the front of the list.
Push_Front(self, resposta) == [self EXCEPT !.parsed_invoices = Invoices(resposta) \o @]

\* self.parsed_invoices.push(comp_nfse.nfse.inf_nfse), for every comp_nfse
Push(self, resposta) == [self EXCEPT !.parsed_invoices = @ \o Invoices(resposta)]

\* An error arm that also empties the records.
Fail_Discarding(self, path, e) ==
    [self EXCEPT !.error_message = Some(BatchError(path, e)), !.parsed_invoices = <<>>]

\* self.error_message = Some(..)
Fail(self, path, e) == [self EXCEPT !.error_message = Some(BatchError(path, e))]

\* parse_xml_from_file is called on path.
Called(self, path) == [self EXCEPT !.opened = Append(@, path)]

RECURSIVE ForPaths(_, _, _)
\* A loop without the break.
MatchParse_Continue(fsys, self, i, r) ==
    IF r.ok THEN ForPaths(fsys, Push(self, r.val), i + 1)
    ELSE ForPaths(fsys, Fail(self, self.selected_files[i], r.err), i + 1)

\* match parse_xml_from_file(path), whose result is r, and the rest of the loop.
MatchParse(fsys, self, i, r) ==
    IF r.ok THEN ForPaths(fsys, Push(self, r.val), i + 1)
    ELSE Fail(self, self.selected_files[i], r.err)

\* for path in &self.selected_files, from the i-th path on.
ForPaths(fsys, self, i) ==
    IF i > Len(self.selected_files) THEN self
    ELSE MatchParse(fsys, Called(self, self.selected_files[i]), i,
                    parse_xml_from_file(fsys, self.selected_files[i]))

process_files(fsys, self) ==
    ForPaths(fsys,
             [self EXCEPT !.parsed_invoices = clear(@),
                          !.error_message = None,
                          !.opened = <<>>,
                          !.cleared = (self.parsed_invoices # <<>>
                                       /\ self.error_message # None),
                          !.batch_started = TRUE],
             1)

\* ------------------------------------------------------------------ WalkDir

\* The listing order of the file system: Listing, or its reverse.
ListingOrder(rev) ==
    IF rev THEN [i \in 1..Len(Listing) |-> Listing[Len(Listing) + 1 - i]] ELSE Listing

\* The entries of directory p, as read_dir lists them.
Entries(fsys, p, rev) ==
    SelectSeq(ListingOrder(rev),
              LAMBDA q : Len(q) = Len(p) + 1 /\ Parent(q) = p /\ fsys[q].kind # "absent")

RECURSIVE WalkDir(_, _, _)
\* The walks of the entries es, one after the other.
WalkEntries(fsys, es, rev) == Flatten([i \in 1..Len(es) |-> WalkDir(fsys, es[i], rev)])

(* WalkDir::new(p).into_iter(): the entry itself, then, for a directory, the
   walk of each of its entries; an Err item where read_dir fails. *)
WalkDir(fsys, p, rev) ==
    IF fsys[p].kind = "absent" THEN <<Err("No such file or directory")>>
    ELSE <<Ok(p)>> \o
         (IF fsys[p].kind # "dir" THEN <<>>
          ELSE IF ~fsys[p].listable THEN <<Err("Permission denied")>>
          ELSE WalkEntries(fsys, Entries(fsys, p, rev), rev))

\* The place of the last dot of name, 0 when it has none.
LastDot(name) ==
    IF Places(name, ".") = {} THEN 0
    ELSE CHOOSE i \in Places(name, ".") : \A j \in Places(name, ".") : j <= i

\* What follows the dot at place d of name; None for no dot, or a dot that starts the name.
AfterDot(name, d) == IF d <= 1 THEN None ELSE Some(SubSeq(name, d + 1, Len(name)))

(* Path::extension: of the last name, what follows its last dot; None when
   the name has no dot, or no dot other than a first character. *)
extension(path) == AfterDot(path[Len(path)], LastDot(path[Len(path)]))

\* .filter(|e| e.path().extension().and_then(|s| s.to_str()) == Some("xml"))
IsXml(item) == extension(item.val) = Some(<<"x", "m", "l">>)

\* .map(|e| e.path().to_path_buf()).collect()
PathsOf(items) == [i \in 1..Len(items) |-> items[i].val]

\* The paths the directory scan collects: filter_map(|e| e.ok()), filter, map.
ScanFolder(fsys, folder, rev) ==
    PathsOf(SelectSeq(SelectSeq(WalkDir(fsys, folder, rev), LAMBDA item : item.ok), IsXml))

\* ------------------------------------------------------- TemplateApp::update

\* The application, with what the last click did.
Self ==
    [selected_files |-> selected_files, parsed_invoices |-> parsed_invoices,
     error_message |-> error_message, opened |-> opened, cleared |-> cleared,
     batch_started |-> batch_started]

\* A click that runs the batch whatever the dialog returned.
SelectFiles_Always(fsys, self, files) ==
    process_files(fsys, IF files = None THEN self
                        ELSE [self EXCEPT !.selected_files = files[1]])

\* The button "Selecionar Arquivos XML", clicked; files is what the dialog returned.
SelectFiles(fsys, self, files) ==
    IF files = None THEN [self EXCEPT !.batch_started = FALSE]
    ELSE process_files(fsys, [self EXCEPT !.selected_files = files[1]])

\* The button "Selecionar Pasta", clicked; folder is what the dialog returned.
SelectFolder(fsys, self, folder, rev) ==
    IF folder = None THEN [self EXCEPT !.batch_started = FALSE]
    ELSE process_files(fsys,
                       [self EXCEPT !.selected_files = ScanFolder(fsys, folder[1], rev)])

\* The application becomes self.
Becomes(self) ==
    /\ selected_files' = self.selected_files
    /\ parsed_invoices' = self.parsed_invoices
    /\ error_message' = self.error_message
    /\ opened' = self.opened
    /\ cleared' = self.cleared
    /\ batch_started' = self.batch_started

\* The paths a file dialog can return.
BatchPaths == {PathA, PathE, PathD}

\* The lists of distinct paths.
Selections(S) ==
    {l \in SeqUpTo(S, Cardinality(S)) : \A i, j \in 1..Len(l) : l[i] = l[j] => i = j}

\* What the file dialog can return: nothing, or a list of distinct paths.
FileDialogResults == {None} \cup {Some(l) : l \in Selections(BatchPaths)}

ClickSelectFiles ==
    \E files \in FileDialogResults :
        /\ Becomes(SelectFiles(fs, Self, files))
        /\ dialog' = [button |-> "files", result |-> files]
        /\ stale' = FALSE
        /\ UNCHANGED <<fs, written, parse_result, decoder_input>>

\* The directories a folder dialog can return.
Directories(fsys) == {p \in Paths : fsys[p].kind = "dir"}

ClickSelectFolder ==
    \E folder \in {None} \cup {Some(d) : d \in Directories(fs)}, rev \in BOOLEAN :
        /\ Becomes(SelectFolder(fs, Self, folder, rev))
        /\ dialog' = [button |-> "folder", result |-> folder]
        /\ stale' = FALSE
        /\ UNCHANGED <<fs, written, parse_result, decoder_input>>

\* ------------------------------------------------------------ the environment

EnvelopeNumbered(num) == CHOOSE e \in AllEnvelopes : e.num = num

\* What each file of a batch may hold.
ContentsA ==
    {File(DocText(0, <<EnvelopeNumbered(<<"1">>), EnvelopeNumbered(<<"2">>)>>)),
     File(DocText(0, <<EnvelopeNumbered(<<"1">>), EnvelopeNumbered(<<"8">>)>>)),
     Absent}

ContentsE ==
    {File(DocText(1, <<EnvelopeNumbered(<<"3">>)>>)), File(DocText(0, <<>>))}

ContentsD == {File(DocText(0, <<EnvelopeNumbered(<<"4">>)>>)), Binary}

Contents(p) == IF p = PathA THEN ContentsA ELSE IF p = PathE THEN ContentsE ELSE ContentsD

FileSystem(a, b, c, e, sub, d, h) ==
    [p \in Paths |->
        CASE p = Root -> Dir(TRUE)
          [] p = PathA -> a
          [] p = PathB -> b
          [] p = PathC -> c
          [] p = PathE -> e
          [] p = PathSub -> sub
          [] p = PathD -> d
          [] p = PathH -> h]

\* The files that change between two clicks.
Rewritten == {PathA}

\* Another program writes, replaces or removes a file between two clicks.
WriteFile ==
    \E p \in Rewritten :
      \E node \in Contents(p) :
        /\ node # fs[p]
        /\ fs' = [fs EXCEPT ![p] = node]
        /\ stale' = TRUE
        /\ written' = None
        /\ UNCHANGED <<selected_files, parsed_invoices, error_message, dialog,
                       batch_started, opened, cleared, parse_result, decoder_input>>

\* parse_xml_from_file, called on a file.
ParseFile ==
    \E p \in {PathA} :
        /\ parse_result' = Some(parse_xml_from_file(fs, p))
        /\ decoder_input' = DecoderInput(fs, p)
        /\ UNCHANGED <<fs, selected_files, parsed_invoices, error_message, dialog,
                       batch_started, opened, cleared, stale, written>>

\* ------------------------------------------------------------ specifications

\* TemplateApp::default(), and nothing clicked or parsed yet.
InitApp ==
    /\ selected_files = <<>>
    /\ parsed_invoices = <<>>
    /\ error_message = None
    /\ dialog = [button |-> "none", result |-> None]
    /\ batch_started = FALSE
    /\ opened = <<>>
    /\ cleared = FALSE
    /\ stale = FALSE
    /\ parse_result = None
    /\ decoder_input = None

\* Batches over three files.
Init ==
    /\ InitApp
    /\ written = None
    /\ fs \in {FileSystem(a, Absent, Absent, e, Dir(TRUE), d, Absent) :
                 a \in ContentsA, e \in ContentsE, d \in ContentsD}

Next == ClickSelectFiles \/ ClickSelectFolder \/ WriteFile

Spec == Init /\ [][Next]_vars

\* A file system whose only file is PathA.
OneFile(node) == FileSystem(node, Absent, Absent, Absent, Absent, Absent, Absent)

\* The generated documents: their byte-order marks and their envelopes.
Written == [boms : 0..MaxBom, envs : SeqUpTo(AllEnvelopes, MaxEnv)]

(* parse_xml_from_file is applied to a generated document, or to a file
   that is absent, not UTF-8, a directory, or cut short. *)
InitParse ==
    /\ InitApp
    /\ \/ /\ written \in {Some(w) : w \in Written}
          /\ fs = OneFile(File(DocText(written[1].boms, written[1].envs)))
       \/ /\ written = None
          /\ fs \in {OneFile(node) :
                       node \in {Absent, Binary, Dir(TRUE), File(Unclosed),
                                 File(<<BOM>> \o Unclosed)}}

NextParse == ParseFile

SpecParse == InitParse /\ [][NextParse]_vars

\* A one-envelope document.
Plain == File(DocText(0, <<EnvelopeNumbered(<<"1">>)>>))

\* Directory trees: files and directories of every name, at two depths.
InitScan ==
    /\ InitApp
    /\ written = None
    /\ fs \in {f \in {FileSystem(a, b, c, Absent, sub, d, h) :
                        a \in {Absent, Plain, Dir(TRUE)},
                        b \in {Absent, Plain},
                        c \in {Absent, Plain},
                        sub \in {Absent, Dir(TRUE), Dir(FALSE)},
                        d \in {Absent, Plain, Dir(TRUE)},
                        h \in {Absent, Plain}} : WellFormed(f)}

NextScan == ClickSelectFolder

SpecScan == InitScan /\ [][NextScan]_vars

\* ------------------------------------------------------ reading the claims

\* The last click called process_files, and no file was written since.
AfterBatch == batch_started /\ ~stale

\* What parse_xml_from_file returns for each path of files.
Results(fsys, files) == [i \in 1..Len(files) |-> parse_xml_from_file(fsys, files[i])]

\* Whether every result is Ok.
AllOk(rs) == \A i \in 1..Len(rs) : rs[i].ok

\* The index of the first Err among the results, 0 when there is none.
FirstErr(rs) ==
    IF AllOk(rs) THEN 0
    ELSE CHOOSE i \in 1..Len(rs) : ~rs[i].ok /\ \A j \in 1..i - 1 : rs[j].ok

RECURSIVE Numeros(_, _)
(* The invoice numbers a text writes, in document order: for every <Numero>
   from position i on, the digits that follow it, without leading zeros. *)
Numeros(text, i) ==
    IF i > Len(text) THEN <<>>
    ELSE IF text[i] # Open("Numero") THEN Numeros(text, i + 1)
    ELSE LET j == CHOOSE k \in i + 1..Len(text) :
                     /\ text[k] = Close("Numero")
                     /\ \A m \in i + 1..k - 1 : text[m] # Close("Numero")
         IN  <<StripZeros([m \in 1..j - i - 1 |-> text[i + m].n])>> \o Numeros(text, j + 1)

\* The invoice numbers the files write, file after file.
NumerosOfFiles(fsys, files) ==
    Flatten([i \in 1..Len(files) |-> Numeros(fsys[files[i]].data, 1)])

\* The numbers of a list of records.
NumerosOfRecords(records) == [i \in 1..Len(records) |-> records[i].numero]

\* The records of the first n results, one after the other, each in the order of its envelopes.
RecordsOf(rs, n) == Flatten([i \in 1..n |-> Invoices(rs[i].val)])

(* C1, as the specification states it: whenever an error message is set,
   the record list is empty (a failed batch keeps nothing). *)
C1_AllOrNothing == error_message # None => parsed_invoices = <<>>

(* C1, amended: a batch run in which some path fails to parse sets the error
   message and leaves in the record list exactly the records of the paths
   before the first failing path, in order; they are not discarded. *)
C1_FailedBatchKeepsPrefix ==
    AfterBatch
    => LET rs == Results(fs, selected_files)
           i == FirstErr(rs)
       IN  i > 0
           => /\ error_message # None
              /\ parsed_invoices = RecordsOf(rs, i - 1)
              /\ NumerosOfRecords(parsed_invoices) =
                   NumerosOfFiles(fs, SubSeq(selected_files, 1, i - 1))

\* A failed batch whose earlier files left records in the list.
C1_Witness ==
    /\ batch_started
    /\ error_message # None
    /\ Len(opened) >= 2
    /\ parsed_invoices # <<>>

(* C2: a batch run over paths that all parse leaves no error message and
   the concatenation, in path order, of each file's records in the order of
   its envelopes; an empty path list leaves no record and no error. *)
C2_OrderedConcatenation ==
    AfterBatch
    => LET rs == Results(fs, selected_files) IN
       AllOk(rs)
       => /\ error_message = None
          /\ parsed_invoices = RecordsOf(rs, Len(rs))
          /\ NumerosOfRecords(parsed_invoices) = NumerosOfFiles(fs, selected_files)
          /\ (selected_files = <<>> => parsed_invoices = <<>>)

\* A successful batch over three files, the two-envelope file not first.
C2_Witness ==
    /\ batch_started
    /\ error_message = None
    /\ Len(selected_files) = 3
    /\ selected_files[1] # PathA
    /\ Len(parsed_invoices) >= 4

(* C3: a batch run parses the paths in list order, each at most once, and
   stops at the first path that fails: no later path is parsed, and the one
   error message names the failing path and carries the cause. *)
C3_StopAtFirstFailure ==
    AfterBatch
    => LET rs == Results(fs, selected_files)
           i == FirstErr(rs)
       IN  IF i = 0
           THEN opened = selected_files /\ error_message = None
           ELSE /\ opened = SubSeq(selected_files, 1, i)
                /\ error_message # None
                /\ error_message[1].path = Some(selected_files[i])
                /\ error_message[1].cause = rs[i].err

\* A batch that failed at its second path of three: the third was never parsed.
C3_Witness ==
    /\ batch_started
    /\ Len(selected_files) = 3
    /\ Len(opened) = 2
    /\ error_message # None
    /\ error_message[1].path = Some(selected_files[2])

\* The application as process_files leaves it when started from nothing.
FreshRun(fsys, files) ==
    ForPaths(fsys,
             [selected_files |-> files, parsed_invoices |-> <<>>,
              error_message |-> None, opened |-> <<>>,
              cleared |-> FALSE,
              batch_started |-> TRUE],
             1)

(* C4: what a batch run leaves depends only on the current path list and
   the current file contents, whatever earlier runs left: the records and
   the error are those of a run started from nothing, and a run whose paths
   all parse leaves no error. *)
C4_ResetOnRerun ==
    AfterBatch
    => LET fresh == FreshRun(fs, selected_files) IN
       /\ parsed_invoices = fresh.parsed_invoices
       /\ error_message = fresh.error_message
       /\ (fresh.error_message = None =>
             NumerosOfRecords(parsed_invoices) = NumerosOfFiles(fs, selected_files))

\* A successful run that cleared the records and the error of a failed run.
C4_Witness ==
    /\ batch_started
    /\ cleared
    /\ error_message = None
    /\ parsed_invoices # <<>>

\* The records of an Ok result.
Records(r) ==
    [i \in 1..Len(r.val.lista_nfse.comp_nfse) |-> r.val.lista_nfse.comp_nfse[i].nfse.inf_nfse]

(* C5: for a generated document whose envelopes are all complete, parse
   succeeds and returns one record per envelope, in document order: zero
   envelopes give a success with zero records. *)
C5_EnvelopeCountAndOrder ==
    \A w \in {x \in Range(written) : Range(x.envs) \subseteq RecipientEnvelopes} :
      \A r \in Range(parse_result) :
        /\ r.ok
        /\ Len(Records(r)) = Len(w.envs)
        /\ \A i \in 1..Len(w.envs) :
              /\ Records(r)[i].numero = StripZeros(w.envs[i].num)
              /\ Records(r)[i].servico.discriminacao = w.envs[i].desc

\* A parsed document of two different envelopes, and its two records.
C5_Witness ==
    \E w \in Range(written) :
      \E r \in Range(parse_result) :
        /\ Len(w.envs) = 2
        /\ w.envs[1].num # w.envs[2].num
        /\ r.ok
        /\ Len(Records(r)) = 2

\* The number of characters U+FEFF a text begins with.
LeadingBoms(text) ==
    IF \A i \in 1..Len(text) : text[i] = BOM THEN Len(text)
    ELSE (CHOOSE i \in 1..Len(text) :
             text[i] # BOM /\ \A j \in 1..i - 1 : text[j] = BOM) - 1

\* The number of characters U+FEFF in a text.
BomCount(text) == Cardinality({i \in 1..Len(text) : text[i] = BOM})

(* C6, as the specification states it: parse removes at most one byte-order
   mark, the one at position 0, so the text handed to the decoder is the
   file's text without its first character when that is a byte-order mark,
   and the file's text otherwise. *)
C6_SingleBomStrip ==
    \A input \in Range(decoder_input) :
      input = IF LeadingBoms(fs[PathA].data) = 0 THEN fs[PathA].data
              ELSE Tail(fs[PathA].data)

(* C6, amended: parse removes every byte-order mark the text begins with,
   and nothing else: the text handed to the decoder is the file's text from
   its first other character on, and the byte-order marks after that
   character are all in it. *)
C6_LeadingBomsStripped ==
    \A input \in Range(decoder_input) :
      /\ input = SubSeq(fs[PathA].data, LeadingBoms(fs[PathA].data) + 1,
                        Len(fs[PathA].data))
      /\ (input # <<>> => Head(input) # BOM)
      /\ BomCount(input) = BomCount(fs[PathA].data) - LeadingBoms(fs[PathA].data)

\* A file with two leading byte-order marks and one inside a description, parsed.
C6_Witness ==
    \E input \in Range(decoder_input) :
      /\ LeadingBoms(fs[PathA].data) = 2
      /\ BomCount(fs[PathA].data) = 3
      /\ BomCount(input) = 1

\* The documents in whose envelopes nothing but the tax ids of the two parties varies.
TaxIdDocuments ==
    {x \in Range(written) :
        Range(x.envs) \subseteq RecipientEnvelopes \cup ProviderEnvelopes}

(* C7, as the specification states it: whatever the presence of cnpj and
   cpf in the provider's and in the recipient's identification, parse
   succeeds. *)
C7_TaxIdToleranceBothParties ==
    \A w \in TaxIdDocuments : \A r \in Range(parse_result) : r.ok

(* C7, amended: the recipient's tax id accepts the four combinations of
   cnpj and cpf present or absent, each exposed as it is in the document;
   the provider's cnpj is mandatory: parse fails with a decode error exactly
   when some provider has no cnpj, and a provider's cpf is not exposed. *)
C7_RecipientTaxIdTolerance ==
    \A w \in TaxIdDocuments :
      \A r \in Range(parse_result) :
        /\ r.ok <=> \A i \in 1..Len(w.envs) : w.envs[i].pcnpj # None
        /\ ~r.ok => r.err.fmt = "Erro ao processar o XML em"
        /\ r.ok =>
             \A i \in 1..Len(w.envs) :
               /\ Records(r)[i].tomador_servico.identificacao_tomador.cpf_cnpj
                    = [cnpj |-> w.envs[i].tcnpj, cpf |-> w.envs[i].tcpf]
               /\ Records(r)[i].prestador_servico.identificacao_prestador
                    = [cnpj |-> w.envs[i].pcnpj[1]]

\* A parsed document with a recipient that has neither tax id and one that has both.
C7_Witness ==
    \E w \in TaxIdDocuments :
      \E r \in Range(parse_result) :
        /\ r.ok
        /\ Len(w.envs) = 2
        /\ w.envs[1].tcnpj = None /\ w.envs[1].tcpf = None
        /\ w.envs[2].tcnpj # None /\ w.envs[2].tcpf # None

\* How many times a token occurs in a text.
Occurrences(text, tok) == Cardinality({i \in 1..Len(text) : text[i] = tok})

\* Whether some envelope of a text has no service amount.
LacksAmount(text) ==
    Occurrences(text, Open("ValorServicos")) < Occurrences(text, Open("CompNfse"))

(* C8: a file in which an envelope lacks the service amount fails to decode
   as a whole: the batch run that parses it reports a decode error naming
   it, and no record of that file is in the record list, not even one of an
   envelope before the defective one. *)
C8_NoPartialRecords ==
    AfterBatch
    => \A i \in 1..Len(opened) :
         (Readable(fs[opened[i]]) /\ LacksAmount(fs[opened[i]].data))
         => /\ i = Len(opened)
            /\ error_message # None
            /\ error_message[1].path = Some(opened[i])
            /\ error_message[1].cause.fmt = "Erro ao processar o XML em"
            /\ error_message[1].cause.path = Some(opened[i])
            /\ Range(Numeros(fs[opened[i]].data, 1))
                 \cap Range(NumerosOfRecords(parsed_invoices)) = {}

\* A batch that parsed a file and then the file whose last envelope lacks the amount.
C8_Witness ==
    /\ AfterBatch
    /\ Len(opened) = 2
    /\ parsed_invoices # <<>>
    /\ Readable(fs[opened[2]])
    /\ LacksAmount(fs[opened[2]].data)
    /\ Len(Numeros(fs[opened[2]].data, 1)) = 2

\* The entries of the tree of folder that a walk reaches: every directory above them can be listed.
Reached(fsys, folder) ==
    {p \in Paths :
        /\ fsys[p].kind # "absent"
        /\ Len(p) >= Len(folder)
        /\ SubSeq(p, 1, Len(folder)) = folder
        /\ \A n \in Len(folder)..Len(p) - 1 : fsys[SubSeq(p, 1, n)].listable}

(* C9: after a directory scan the selected paths are exactly the files of
   the tree, at any depth, whose extension is "xml"; nothing that is not a
   file is selected. *)
C9_ScanSelectsXmlFiles ==
    (dialog.button = "folder" /\ dialog.result # None)
    => /\ Range(selected_files) =
            {p \in Reached(fs, dialog.result[1]) :
                fs[p].kind = "file" /\ extension(p) = Some(<<"x", "m", "l">>)}
       /\ \A i \in 1..Len(selected_files) : fs[selected_files[i]].kind = "file"

(* C10: a click whose dialog returns nothing leaves the selected paths, the
   records and the error as they were and starts no batch run; a batch run
   starts only in a click whose dialog returned a selection, which has then
   replaced the selected paths. *)
C10_CancelIsNoOp ==
    [][/\ (dialog'.result = None /\ ~stale')
          => /\ selected_files' = selected_files
             /\ parsed_invoices' = parsed_invoices
             /\ error_message' = error_message
             /\ ~batch_started'
       /\ (batch_started' /\ ~stale')
          => /\ dialog'.result # None
             /\ dialog'.button = "files" => selected_files' = dialog'.result[1]]_vars

\* A cancelled dialog after a failed batch: its records and its error are still there.
C10_Witness ==
    /\ dialog.button = "files"
    /\ dialog.result = None
    /\ ~stale
    /\ ~batch_started
    /\ parsed_invoices # <<>>
    /\ error_message # None

====
